---- MODULE Spec2Model ----
(***************************************************************************)
(* Model of RMTEncoderForSequenceClassification (src/modeling_rmt.py):     *)
(* pad_and_segment splits a batch of token-id rows into fixed-size         *)
(* segments, __call__ threads the memory tensor through the segments.      *)
(* Tensors are sequences; a hidden vector is one integer (hidden_dim 1).   *)
(* A Python value that may be None / absent is a sequence of length 0 or 1.*)
(***************************************************************************)
EXTENDS Integers, Sequences, FiniteSets, TLC

\* ---------------------------------------------------------------- bounds
MaxBatch == 2
MaxSeqLen == 5
MaxFwdLen == 4
MaxMem == 2
MaxCap == 3
MaxBptt == 2

\* ------------------------------------------------------ program constants
cls_token_id == 101
sep_token_id == 102
vocab_size == 200
ContentToks == {5, 6}
PadIds == {0, 1}
WeightValues == {0, 1}
SegBatchSizes == {1, 2}
FwdCaps == {1, 2}

VARIABLES
  input_size, input_seg_size, num_mem_tokens, bptt_depth, pad_token_id,
  drop_empty_segments, sum_loss,      \* self.* set by set_params
  weights,                            \* parameters of the wrapped model
  empty,                              \* self.empty (absent until pad_and_segment ran)
  input_ids, kwargs,                  \* arguments of the current call
  pc, memory, segmented, seg_num, outputs,   \* locals of __call__
  calls,                              \* the model.forward invocations of the call
  detach_log,                         \* per loop iteration: did memory.detach() run
  err                                 \* the exception the call raised, if any

config == <<input_size, input_seg_size, num_mem_tokens, bptt_depth, pad_token_id,
            drop_empty_segments, sum_loss>>
locals == <<pc, memory, segmented, seg_num, outputs, calls, detach_log, err>>
vars == <<config, weights, empty, input_ids, kwargs, locals>>

\* ---------------------------------------------------------------- helpers
RECURSIVE SumSeq(_)
SumSeq(s) == IF s = <<>> THEN 0 ELSE Head(s) + SumSeq(Tail(s))

RECURSIVE Concat(_)
Concat(ss) == IF ss = <<>> THEN <<>> ELSE Head(ss) \o Concat(Tail(ss))

\* a function over 1..n as an explicit tuple (evaluated once, not per access)
AsSeq(f) == f \o <<>>

Reverse(s) == AsSeq([i \in 1..Len(s) |-> s[Len(s) + 1 - i]])

CeilDiv(a, b) == (a + b - 1) \div b

\* tensor[mask] with a boolean mask over the first axis
RECURSIVE MaskSelect(_, _)
MaskSelect(rows, mask) ==
  IF rows = <<>> THEN <<>>
  ELSE (IF Head(mask) THEN <<Head(rows)>> ELSE <<>>) \o MaskSelect(Tail(rows), Tail(mask))

\* number of True entries among mask[1..b]
RECURSIVE Rank(_, _)
Rank(mask, b) == IF b = 0 THEN 0 ELSE Rank(mask, b - 1) + (IF mask[b] THEN 1 ELSE 0)

\* ------------------------------------------------------ pad_and_segment
mem_token_ids(M) == AsSeq([j \in 1..M |-> vocab_size + j - 1])

\* input[input != self.pad_token_id][1:-1]
StripContent(row, pad) ==
  LET kept == SelectSeq(row, LAMBDA t : t # pad)
  IN  IF Len(kept) <= 2 THEN <<>> ELSE SubSeq(kept, 2, Len(kept) - 1)

\* input_seg_size = self.input_size - self.num_mem_tokens - 3, capped by self.input_seg_size
SegCapacity(size, M, cap) ==
  LET k == size - M - 3
  IN  IF cap # <<>> /\ cap[1] < k THEN cap[1] ELSE k

NSegmentsOffByOne(sequence_len, K) == sequence_len \div K + 1
\* n_segments = math.ceil(sequence_len / input_seg_size)
NSegments(sequence_len, K) == CeilDiv(sequence_len, K)

\* list(range(L, 0, -K))
RECURSIVE RangeDown(_, _)
RangeDown(L, K) == IF L <= 0 THEN <<>> ELSE <<L>> \o RangeDown(L - K, K)

\* list(range(0, L, K)) + [L]: chunking from the front instead of from the end
RECURSIVE RangeUp(_, _, _)
RangeUp(s, L, K) == IF s >= L THEN <<L>> ELSE <<s>> \o RangeUp(s + K, L, K)
SegSepIndsFront(L, K) == IF L = 0 THEN <<0>> ELSE RangeUp(0, L, K)
\* [0] + list(range(L - 1, 0, -K))[::-1]: the last content token is cut off
SegSepIndsShort(L, K) == <<0>> \o Reverse(RangeDown(L - 1, K))
\* seg_sep_inds = [0] + list(range(len(input), 0, -input_seg_size))[::-1]
SegSepInds(L, K) == <<0>> \o Reverse(RangeDown(L, K))

\* [input[s:e] for s, e in zip(seg_sep_inds, seg_sep_inds[1:])]
ContentChunks(content, K) ==
  LET inds == SegSepInds(Len(content), K)
  IN  AsSeq([c \in 1..(Len(inds) - 1) |-> SubSeq(content, inds[c] + 1, inds[c + 1])])

\* F.pad(tensor, (0, pad_size)) fills with the constant 0
PadAddSpecialTokens(tensor, seg_size, M) ==
  LET t == <<cls_token_id>> \o mem_token_ids(M) \o <<sep_token_id>> \o tensor \o <<sep_token_id>>
      pad_size == seg_size - Len(t)
  IN  IF pad_size > 0 THEN t \o [i \in 1..pad_size |-> 0] ELSE t

EmptySegment(size, M) == PadAddSpecialTokens(<<>>, size, M)

\* one example's augmented_input: empty_segments + input_segments, concatenated
AugmentedInput(row, n_segments, size, M, cap, pad) ==
  LET chunks == ContentChunks(StripContent(row, pad), SegCapacity(size, M, cap))
      segs   == AsSeq([c \in 1..Len(chunks) |-> PadAddSpecialTokens(chunks[c], size, M)])
      n_empty == n_segments - Len(segs)
      empties == [c \in 1..(IF n_empty > 0 THEN n_empty ELSE 0) |-> EmptySegment(size, M)]
  IN  Concat(empties \o segs)

\* torch.chunk(t, n, dim=1) on a batch of rows: n pieces of ceil(width / n) columns
TorchChunk(rows, n) ==
  LET width == Len(rows[1])
      csize == CeilDiv(width, n)
      count == CeilDiv(width, csize)
  IN  AsSeq([c \in 1..count |->
        AsSeq([b \in 1..Len(rows) |->
          SubSeq(rows[b], (c - 1) * csize + 1,
                 IF c * csize < width THEN c * csize ELSE width)])])

\* the tuple (input_segments, attention_mask, token_type_ids) pad_and_segment returns
PadAndSegment(ids, size, M, cap, pad) ==
  LET sequence_len == Len(ids[1])
      n_segments == NSegments(sequence_len, SegCapacity(size, M, cap))
      augmented == AsSeq([b \in 1..Len(ids) |->
                     AugmentedInput(ids[b], n_segments, size, M, cap, pad)])
      attention == AsSeq([b \in 1..Len(ids) |->
                     AsSeq([p \in 1..Len(augmented[b]) |-> IF augmented[b][p] = pad THEN 0 ELSE 1])])
      types == AsSeq([b \in 1..Len(ids) |-> AsSeq([p \in 1..Len(augmented[b]) |-> 0])])
  IN  <<TorchChunk(augmented, n_segments), TorchChunk(attention, n_segments),
        TorchChunk(types, n_segments)>>

\* ------------------------------------------------------- wrapped model
\* self.net.embeddings.word_embeddings(id), for the current parameters w
Emb(w, id) == 3 * id + w

\* set_memory(): the embedding lookup of the memory-slot ids, a rank-2 tensor
SetMemory(w, M) == [ndim |-> 2, data |-> AsSeq([j \in 1..M |-> Emb(w, mem_token_ids(M)[j])])]

\* self.model.forward(inputs_embeds=..., attention_mask=..., labels=...,
\* output_hidden_states=True): the last hidden-state layer, one vector per
\* position, and the loss (None without labels).  Every position attends to
\* the unmasked positions of its row.
ModelForward(w, embeds, attention, labels) ==
  LET hidden == AsSeq([r \in 1..Len(embeds) |->
                  LET ctx == SumSeq(AsSeq([p \in 1..Len(embeds[r]) |->
                                            attention[r][p] * embeds[r][p]]))
                  IN  AsSeq([p \in 1..Len(embeds[r]) |-> embeds[r][p] + ctx + w + p])])
  IN  [hidden |-> hidden,
       loss |-> IF labels = <<>> THEN <<>>
                ELSE <<1 + SumSeq(AsSeq([r \in 1..Len(hidden) |->
                                          (hidden[r][1] + labels[1][r]) % 3]))>>]

\* ------------------------------------------------------------ __call__
\* memory.repeat(input_ids.shape[0], 1, 1) when memory.ndim == 2
Broadcast(mem, B) ==
  IF mem.ndim = 2 THEN [ndim |-> 3, data |-> AsSeq([b \in 1..B |-> mem.data])] ELSE mem

\* (self.bptt_depth > -1) and (len(segmented) - seg_num > self.bptt_depth);
\* segmented is the 3-tuple pad_and_segment returned
ShouldDetach(depth, seg_tuple, seg) == depth > -1 /\ Len(seg_tuple) - seg > depth

\* [not torch.equal(input_ids[i], self.empty) for i in range(len(input_ids))]
NonEmptyMask(ids, sentinel) == AsSeq([b \in 1..Len(ids) |-> ids[b] # sentinel])

AnyTrue(mask) == \E b \in 1..Len(mask) : mask[b]

\* word_embeddings(input_ids) with positions [1, 1+M) overwritten by memory
InputsEmbeds(w, ids, mem_rows, M) ==
  AsSeq([r \in 1..Len(ids) |->
    AsSeq([p \in 1..Len(ids[r]) |->
      IF p >= 2 /\ p <= M + 1 THEN mem_rows[r][p - 1] ELSE Emb(w, ids[r][p])])])

ExtractMemoryShifted(hidden, M) == AsSeq([r \in 1..Len(hidden) |-> SubSeq(hidden[r], 2, M + 1)])
\* out.hidden_states[-1][:, :self.num_mem_tokens]
ExtractMemory(hidden, M) == AsSeq([r \in 1..Len(hidden) |-> SubSeq(hidden[r], 1, M)])

ScatterAll(data, mask, rows) ==
  AsSeq([b \in 1..Len(data) |-> rows[IF mask[b] THEN Rank(mask, b) ELSE 1]])
\* memory[non_empty_mask] = rows
Scatter(data, mask, rows) ==
  AsSeq([b \in 1..Len(data) |-> IF mask[b] THEN rows[Rank(mask, b)] ELSE data[b]])

StepLabelsUnfiltered(labels, mask) == labels
\* seg_kwargs['labels'][non_empty_mask]
StepLabels(labels, mask) == <<MaskSelect(labels[1], mask)>>

SumLossIntoFirst(outs) ==
  [outs EXCEPT ![1].loss = <<SumSeq(AsSeq([k \in 1..Len(outs) |-> outs[k].loss[1]]))>>]
\* out['loss'] = torch.stack([o['loss'] for o in outputs]).sum(dim=-1); out is
\* the loop variable, the object appended last to outputs
SumLoss(outs) ==
  [outs EXCEPT ![Len(outs)].loss = <<SumSeq(AsSeq([k \in 1..Len(outs) |-> outs[k].loss[1]]))>>]

\* ---------------------------------------------------------------- inputs
Row(content, W, pad, left) ==
  LET body == <<cls_token_id>> \o content \o <<sep_token_id>>
      fill == [i \in 1..(W - Len(body)) |-> pad]
  IN  IF left THEN fill \o body ELSE body \o fill

PlainContent(L) == [i \in 1..L |-> IF i % 2 = 1 THEN 5 ELSE 6]

IdleLocals ==
  /\ pc = "idle"
  /\ memory = [ndim |-> 2, data |-> <<>>]
  /\ segmented = << <<>>, <<>>, <<>> >>
  /\ seg_num = 0
  /\ outputs = <<>>
  /\ calls = <<>>
  /\ detach_log = <<>>
  /\ err = ""

\* batches for the segmenter: the first row carries any content, left- or
\* right-padded; the other rows vary in length
SegInit ==
  /\ num_mem_tokens \in 0..MaxMem
  /\ \E k \in 1..MaxCap : input_size = num_mem_tokens + 3 + k
  /\ input_seg_size \in {<<>>} \cup {<<k>> : k \in 1..MaxCap}
  /\ pad_token_id \in PadIds
  /\ bptt_depth = -1
  /\ drop_empty_segments = TRUE
  /\ sum_loss = FALSE
  /\ weights = 0
  /\ empty = <<>>
  /\ kwargs = [labels |-> <<>>]
  /\ \E B \in SegBatchSizes, W \in 2..MaxSeqLen :
       \E L1 \in 0..(W - 2), left \in BOOLEAN, lens \in [2..B -> 0..(W - 2)] :
         \E c1 \in [1..L1 -> ContentToks] :
           input_ids = [b \in 1..B |->
                          IF b = 1 THEN Row(c1, W, pad_token_id, left)
                          ELSE Row(PlainContent(lens[b]), W, pad_token_id, FALSE)]
  /\ IdleLocals

\* batches for the forward call: right-padded rows of every length
Init ==
  /\ num_mem_tokens = MaxMem
  /\ \E k \in FwdCaps : input_size = num_mem_tokens + 3 + k
  /\ input_seg_size = <<>>
  /\ pad_token_id = 0
  /\ bptt_depth \in -1..MaxBptt
  /\ drop_empty_segments \in BOOLEAN
  /\ sum_loss \in BOOLEAN
  /\ weights = 0
  /\ empty = <<>>
  /\ \E B \in {1, MaxBatch}, W \in 2..MaxFwdLen :
       \E lens \in [1..B -> 0..(W - 2)] :
         /\ input_ids = [b \in 1..B |-> Row(PlainContent(lens[b]), W, pad_token_id, FALSE)]
         /\ kwargs \in {[labels |-> <<>>], [labels |-> <<[b \in 1..B |-> b]>>]}
  /\ IdleLocals

\* ---------------------------------------------------------------- actions
\* lines 69-72: memory = self.set_memory(); segmented = self.pad_and_segment(input_ids)
Call ==
  /\ pc = "idle"
  /\ memory' = SetMemory(weights, num_mem_tokens)
  /\ segmented' = PadAndSegment(input_ids, input_size, num_mem_tokens, input_seg_size, pad_token_id)
  /\ empty' = <<EmptySegment(input_size, num_mem_tokens)>>
  /\ outputs' = <<>>
  /\ seg_num' = 0
  /\ pc' = "loop"
  /\ UNCHANGED <<config, weights, input_ids, kwargs, calls, detach_log, err>>

\* the loop body's view of the current segment (lines 73-78)
StepIds == segmented[1][seg_num + 1]
StepAttention == segmented[2][seg_num + 1]
StepMemory == Broadcast(memory, Len(StepIds))
StepMask == NonEmptyMask(StepIds, empty[1])
InLoop == pc = "loop" /\ seg_num < Len(segmented[1])
Detached == Append(detach_log, ShouldDetach(bptt_depth, segmented, seg_num))

\* lines 83-85: every example is empty at this step: continue
LoopSkip ==
  /\ InLoop
  /\ drop_empty_segments /\ ~AnyTrue(StepMask)
  /\ memory' = StepMemory
  /\ detach_log' = Detached
  /\ seg_num' = seg_num + 1
  /\ UNCHANGED <<config, weights, empty, input_ids, kwargs, pc, segmented, outputs, calls, err>>

\* line 89: seg_kwargs['labels'] on keyword arguments without labels
LoopKeyError ==
  /\ InLoop
  /\ drop_empty_segments /\ AnyTrue(StepMask) /\ kwargs.labels = <<>>
  /\ memory' = StepMemory
  /\ detach_log' = Detached
  /\ pc' = "error"
  /\ err' = "KeyError"
  /\ UNCHANGED <<config, weights, empty, input_ids, kwargs, segmented, seg_num, outputs, calls>>

\* lines 86-107: the model runs on the (filtered) segment, memory is updated
LoopRun ==
  /\ InLoop
  /\ drop_empty_segments => (AnyTrue(StepMask) /\ kwargs.labels # <<>>)
  /\ LET B == Len(StepIds)
         mask == IF drop_empty_segments THEN StepMask ELSE AsSeq([b \in 1..B |-> TRUE])
         ids == IF drop_empty_segments THEN MaskSelect(StepIds, mask) ELSE StepIds
         attention == IF drop_empty_segments THEN MaskSelect(StepAttention, mask)
                      ELSE StepAttention
         types == IF drop_empty_segments THEN MaskSelect(segmented[3][seg_num + 1], mask)
                  ELSE segmented[3][seg_num + 1]
         labels == IF drop_empty_segments THEN StepLabels(kwargs.labels, mask)
                   ELSE kwargs.labels
         mem_rows == IF drop_empty_segments THEN MaskSelect(StepMemory.data, mask)
                     ELSE StepMemory.data
         inputs_embeds == InputsEmbeds(weights, ids, mem_rows, num_mem_tokens)
         out == ModelForward(weights, inputs_embeds, attention, labels)
         new_rows == ExtractMemory(out.hidden, num_mem_tokens)
     IN  /\ outputs' = Append(outputs, out)
         /\ calls' = Append(calls, [seg_num |-> seg_num, mask |-> mask,
                                    inputs_embeds |-> inputs_embeds,
                                    attention_mask |-> attention,
                                    token_type_ids |-> types,
                                    labels |-> labels, loss |-> out.loss])
         /\ memory' = [ndim |-> 3,
                       data |-> IF drop_empty_segments
                                THEN Scatter(StepMemory.data, mask, new_rows)
                                ELSE new_rows]
  /\ detach_log' = Detached
  /\ seg_num' = seg_num + 1
  /\ UNCHANGED <<config, weights, empty, input_ids, kwargs, pc, segmented, err>>

AtEnd == pc = "loop" /\ seg_num = Len(segmented[1])

\* line 111 without sum_loss: return outputs
ReturnOutputs ==
  /\ AtEnd /\ ~sum_loss
  /\ pc' = "done"
  /\ UNCHANGED <<config, weights, empty, input_ids, kwargs, memory, segmented, seg_num,
                 outputs, calls, detach_log, err>>

\* lines 109-111 with sum_loss and a loss in every output
ReturnSummed ==
  /\ AtEnd /\ sum_loss
  /\ outputs # <<>> /\ \A k \in 1..Len(outputs) : outputs[k].loss # <<>>
  /\ outputs' = SumLoss(outputs)
  /\ pc' = "done"
  /\ UNCHANGED <<config, weights, empty, input_ids, kwargs, memory, segmented, seg_num,
                 calls, detach_log, err>>

\* line 110 raises: torch.stack of an empty list (and out is unbound), or of
\* losses that are None
SumLossError ==
  /\ AtEnd /\ sum_loss
  /\ outputs = <<>> \/ \E k \in 1..Len(outputs) : outputs[k].loss = <<>>
  /\ pc' = "error"
  /\ err' = IF outputs = <<>> THEN "RuntimeError" ELSE "TypeError"
  /\ UNCHANGED <<config, weights, empty, input_ids, kwargs, memory, segmented, seg_num,
                 outputs, calls, detach_log>>

\* the call is over (returned or raised): its locals are gone, self.empty stays
EndCall ==
  /\ pc \in {"done", "error"}
  /\ pc' = "idle"
  /\ memory' = [ndim |-> 2, data |-> <<>>]
  /\ segmented' = << <<>>, <<>>, <<>> >>
  /\ seg_num' = 0
  /\ outputs' = <<>>
  /\ calls' = <<>>
  /\ detach_log' = <<>>
  /\ err' = ""
  /\ UNCHANGED <<config, weights, empty, input_ids, kwargs>>

\* between calls the wrapped model's parameters change (an optimizer step)
Train ==
  /\ pc = "idle"
  /\ weights' \in WeightValues \ {weights}
  /\ UNCHANGED <<config, empty, input_ids, kwargs, locals>>

Next == Call \/ LoopSkip \/ LoopKeyError \/ LoopRun \/ ReturnOutputs \/ ReturnSummed
        \/ SumLossError \/ EndCall \/ Train

Spec == Init /\ [][Next]_vars

\* ------------------------------------------------- segmenter: vocabulary
K == SegCapacity(input_size, num_mem_tokens, input_seg_size)
NSeg == Len(segmented[1])
Batch == 1..Len(input_ids)
Sentinel == EmptySegment(input_size, num_mem_tokens)
Content(b) == StripContent(input_ids[b], pad_token_id)
MaxContentLen == CHOOSE l \in {Len(Content(b)) : b \in Batch} :
                   \A b \in Batch : Len(Content(b)) <= l

\* example b's segments of a segment list, in step order
ExampleSegs(segs, b) == AsSeq([c \in 1..Len(segs) |-> segs[c][b]])
ContentBearing(segs, b) == SelectSeq(ExampleSegs(segs, b), LAMBDA s : s # Sentinel)

\* what is left of a segment without start marker, memory-slot ids, the two
\* separators and the padding: the tokens between the opening separator and
\* the last separator of the segment
ClosingSep(seg) == CHOOSE p \in 1..Len(seg) :
                     seg[p] = sep_token_id /\ \A q \in (p + 1)..Len(seg) : seg[q] # sep_token_id
SegContent(seg) == SubSeq(seg, num_mem_tokens + 3, ClosingSep(seg) - 1)
Reconstructed(b) ==
  Concat(AsSeq([c \in 1..NSeg |-> SegContent(segmented[1][c][b])]))

\* the reconstructed contents as a new batch, and its segmentation
ReBatch == AsSeq([b \in Batch |-> Row(Reconstructed(b), MaxContentLen + 2, pad_token_id, FALSE)])
ReSegmented == PadAndSegment(ReBatch, input_size, num_mem_tokens, input_seg_size, pad_token_id)

\* ------------------------------------------------ forward call: vocabulary
MemSlice(row) == SubSeq(row, 2, num_mem_tokens + 1)
MemRow(mem, b) == IF mem.ndim = 2 THEN mem.data ELSE mem.data[b]
MemoryEmbedding == AsSeq([j \in 1..num_mem_tokens |-> Emb(weights, vocab_size + j - 1)])
IsEmptyAt(c, b) == segmented[1][c][b] = Sentinel
AllEmptyAt(c) == \A b \in Batch : IsEmptyAt(c, b)
Finished == pc \in {"done", "error"}
ReturnedLosses == AsSeq([k \in 1..Len(calls) |-> calls[k].loss])

\* C1 (as claimed): with bptt_depth = d >= 0 the memory entering segment i is
\* detached iff (n_segments - i) > d, n_segments the number of segments of the
\* call; with bptt_depth = -1 it is never detached.
C1_DetachIffWithinDepth ==
  \A i \in 1..Len(detach_log) :
    detach_log[i] <=> (bptt_depth >= 0 /\ NSeg - (i - 1) > bptt_depth)

\* C2: the memory written into positions [1, 1+M) of an example's input
\* embeddings at an executed step is the first M rows of the last hidden layer
\* returned for that example at the previous executed step; an example's
\* memory before its first step is the embedding of the memory-slot ids under
\* the parameters current at the call.
C2_MemoryPropagation ==
  /\ pc = "loop" /\ calls = <<>> => \A b \in Batch : MemRow(memory, b) = MemoryEmbedding
  /\ \A k \in 1..Len(calls) : \A b \in Batch :
       calls[k].mask[b] =>
         LET r == Rank(calls[k].mask, b)
             fed == MemSlice(calls[k].inputs_embeds[r])
         IN  IF k > 1 /\ calls[k - 1].mask[b]
             THEN fed = SubSeq(outputs[k - 1].hidden[Rank(calls[k - 1].mask, b)],
                               1, num_mem_tokens)
             ELSE (\A j \in 1..(k - 1) : ~calls[j].mask[b]) /\ fed = MemoryEmbedding

\* C2 witness: after a parameter change, two executed steps where an example
\* joined at the second one, so the rows of the two outputs are not aligned
C2_Witness ==
  /\ Len(calls) >= 2 /\ weights # 0 /\ num_mem_tokens >= 2
  /\ \E b1, b2 \in Batch : /\ b1 < b2
                            /\ ~calls[1].mask[b1] /\ calls[2].mask[b1]
                            /\ calls[1].mask[b2] /\ calls[2].mask[b2]

\* C3: with drop_empty_segments, a step leaves the memory of every example
\* that is empty at it as it was, overwrites the memory of each other example
\* with that example's own row of the model output, and when all are empty
\* invokes no model, appends no output and leaves the whole memory as it was.
C3_EmptyExamplesKeepMemory ==
  [][(pc = "loop" /\ drop_empty_segments /\ seg_num' = seg_num + 1) =>
       /\ \A b \in Batch :
            IF IsEmptyAt(seg_num + 1, b)
            THEN MemRow(memory', b) = MemRow(memory, b)
            ELSE /\ Len(outputs') = Len(outputs) + 1
                 /\ MemRow(memory', b) =
                      SubSeq(outputs'[Len(outputs')].hidden[
                               Cardinality({e \in 1..b : ~IsEmptyAt(seg_num + 1, e)})],
                             1, num_mem_tokens)
       /\ AllEmptyAt(seg_num + 1) => outputs' = outputs /\ calls' = calls
       /\ ~AllEmptyAt(seg_num + 1) =>
            Len(outputs'[Len(outputs')].hidden) =
              Cardinality({e \in Batch : ~IsEmptyAt(seg_num + 1, e)})
    ]_vars

\* C3 witness: a step skipped as a whole, then a step run with one example
\* empty and a later example not
C3_Witness ==
  /\ drop_empty_segments /\ pc = "loop" /\ Len(calls) >= 1
  /\ seg_num > Len(calls)
  /\ \E b1, b2 \in Batch : b1 < b2 /\ ~calls[Len(calls)].mask[b1] /\ calls[Len(calls)].mask[b2]

\* C4 (as claimed): with sum_loss and an executed step the returned list's
\* first output carries the sum of all losses, the others their own loss.
C4_SumInFirstOutput ==
  (pc = "done" /\ sum_loss /\ outputs # <<>>) =>
    /\ outputs[1].loss = <<SumSeq(AsSeq([k \in 1..Len(calls) |-> calls[k].loss[1]]))>>
    /\ \A k \in 2..Len(outputs) : outputs[k].loss = calls[k].loss

\* C4 (amended): with sum_loss, labels passed and an executed step the call
\* returns, the last output carries the sum of the losses the model returned
\* for all executed steps, every other output the loss the model returned.
C4_SumInLastOutput ==
  (Finished /\ sum_loss /\ kwargs.labels # <<>> /\ outputs # <<>>) =>
    /\ pc = "done"
    /\ Len(outputs) = Len(calls)
    /\ \A k \in 1..Len(calls) : calls[k].loss # <<>>
    /\ outputs[Len(outputs)].loss =
         <<SumSeq(AsSeq([k \in 1..Len(calls) |-> calls[k].loss[1]]))>>
    /\ \A k \in 1..(Len(outputs) - 1) : outputs[k].loss = calls[k].loss

\* C4 witness: three executed steps, returned with the sum in the last output
C4_Witness ==
  /\ pc = "done" /\ sum_loss /\ Len(outputs) >= 3
  /\ outputs[Len(outputs)].loss # calls[Len(calls)].loss
  /\ outputs[1].loss = calls[1].loss

\* C5 (as claimed): with drop_empty_segments a call on a batch that is empty
\* at every step returns an empty output list, whatever sum_loss and labels.
C5_AllEmptyReturnsEmptyList ==
  (drop_empty_segments /\ Finished /\ \A c \in 1..NSeg : AllEmptyAt(c)) =>
    pc = "done" /\ outputs = <<>>

\* C10 (as claimed): with drop_empty_segments a call without labels never
\* returns, whatever the batch; with labels, the labels passed at an executed
\* step are those of the examples non-empty at it, in the filtered order.
C10_NoLabelsAlwaysFails ==
  /\ (drop_empty_segments /\ kwargs.labels = <<>>) => pc # "done"
  /\ (drop_empty_segments /\ kwargs.labels # <<>>) =>
       \A k \in 1..Len(calls) :
         calls[k].labels =
           <<SelectSeq(kwargs.labels[1], LAMBDA l : ~IsEmptyAt(calls[k].seg_num + 1, l))>>

\* C10 (amended): with drop_empty_segments a call without labels never
\* invokes the model and fails with a KeyError at the first step that has a
\* non-empty example; only a batch empty at every step gets past the loop.
\* With labels, the labels passed at an executed step are those of the
\* examples non-empty at it, in the order of the filtered inputs.
C10_NoLabelsFailsAtFirstContent ==
  /\ (drop_empty_segments /\ kwargs.labels = <<>> /\ pc # "idle") =>
       /\ calls = <<>> /\ outputs = <<>>
       /\ \A c \in 1..seg_num : AllEmptyAt(c)
       /\ (pc = "loop" /\ seg_num < NSeg /\ ~AllEmptyAt(seg_num + 1)) => ENABLED LoopKeyError
       /\ pc = "error" /\ err = "KeyError" => (seg_num < NSeg /\ ~AllEmptyAt(seg_num + 1))
       /\ (\E c \in 1..NSeg : ~AllEmptyAt(c)) => pc # "done"
  /\ (drop_empty_segments /\ kwargs.labels # <<>>) =>
       \A k \in 1..Len(calls) :
         /\ calls[k].labels =
              <<SelectSeq(kwargs.labels[1], LAMBDA l : ~IsEmptyAt(calls[k].seg_num + 1, l))>>
         /\ Len(calls[k].inputs_embeds) = Len(calls[k].labels[1])
         /\ calls[k].attention_mask = MaskSelect(segmented[2][calls[k].seg_num + 1], calls[k].mask)
         /\ \A b \in Batch : calls[k].mask[b] <=> ~IsEmptyAt(calls[k].seg_num + 1, b)

\* C10 witness: the call without labels failed after skipping an empty step
C10_Witness ==
  /\ drop_empty_segments /\ kwargs.labels = <<>>
  /\ pc = "error" /\ err = "KeyError" /\ seg_num >= 1

\* C6 (as claimed): n_segments = ceil(L / K), at least one, L the longest
\* stripped content of the batch; an exact multiple of K gives L / K segments.
C6_SegmentCountFromContent ==
  pc = "loop" =>
    NSeg = (IF MaxContentLen = 0 THEN 1 ELSE CeilDiv(MaxContentLen, K))

\* C6 (amended): n_segments = ceil(W / K) for the width W of the input tensor
\* (padding and boundary markers included); every list of the result holds
\* that many batch-aligned entries, it is at least one and at least
\* ceil(L / K), and each example's surplus segments are leading sentinels.
C6_SegmentCountFromWidth ==
  pc = "loop" =>
    LET W == Len(input_ids[1]) IN
    /\ NSeg >= 1 /\ NSeg * K >= W /\ (NSeg - 1) * K < W
    /\ \A t \in 1..3 : Len(segmented[t]) = NSeg
    /\ \A c \in 1..NSeg : Len(segmented[1][c]) = Len(input_ids)
    /\ \A b \in Batch :
         LET used == Len(ContentBearing(segmented[1], b)) IN
         /\ used * K >= Len(Content(b)) /\ (used = 0 \/ (used - 1) * K < Len(Content(b)))
         /\ \A c \in 1..(NSeg - used) : segmented[1][c][b] = Sentinel

\* C6 witness: content an exact positive multiple of K, yet one more segment
C6_Witness ==
  /\ pc = "loop" /\ MaxContentLen > 0 /\ MaxContentLen % K = 0
  /\ NSeg = MaxContentLen \div K + 1

\* C7 (as claimed): the segments' contents concatenate to the stripped input,
\* and segmenting the reconstruction again gives the identical segmentation.
C7_ReconstructAndIdempotent ==
  pc = "loop" =>
    /\ \A b \in Batch : Reconstructed(b) = Content(b)
    /\ ReSegmented = segmented

\* C7 (amended): the contents concatenate to the stripped input, and
\* segmenting the reconstruction again gives every example the same
\* content-bearing segments in the same order, all others being sentinels.
C7_ReconstructAndSameContentSegments ==
  pc = "loop" =>
    /\ \A b \in Batch : Reconstructed(b) = Content(b)
    /\ \A b \in Batch :
         /\ ContentBearing(ReSegmented[1], b) = ContentBearing(segmented[1], b)
         /\ \A c \in 1..(Len(ReSegmented[1]) - Len(ContentBearing(ReSegmented[1], b))) :
              ReSegmented[1][c][b] = Sentinel

\* C7 witness: an example split over two or more content segments whose
\* re-segmentation has a different number of segments
C7_Witness ==
  /\ pc = "loop"
  /\ \E b \in Batch : Len(ContentBearing(segmented[1], b)) >= 2
                       /\ Reconstructed(b) = Content(b)
  /\ Len(ReSegmented[1]) # NSeg

\* C8: with L not a multiple of K only the first content-bearing segment is
\* short (L mod K tokens) and all later ones hold K; with L a positive
\* multiple of K all hold K.  K = input_size - M - 3, lowered to
\* input_seg_size when configured and smaller.
C8_FirstSegmentShorter ==
  pc = "loop" =>
    LET k == IF input_seg_size # <<>> /\ input_seg_size[1] < input_size - num_mem_tokens - 3
             THEN input_seg_size[1] ELSE input_size - num_mem_tokens - 3
    IN  \A b \in Batch :
          LET cb == ContentBearing(segmented[1], b)
              L  == Len(Content(b))
          IN  \A c \in 1..Len(cb) :
                Len(SegContent(cb[c])) = (IF c = 1 /\ L % k # 0 THEN L % k ELSE k)

\* C8 witness: a configured cap below the structural capacity, a content
\* longer than K and not a multiple of it
C8_Witness ==
  /\ pc = "loop"
  /\ input_seg_size # <<>> /\ input_seg_size[1] < input_size - num_mem_tokens - 3
  /\ \E b \in Batch : Len(Content(b)) > K /\ Len(Content(b)) % K # 0
                       /\ Len(ContentBearing(segmented[1], b)) >= 2

\* C9: every segment has input_size tokens: start marker, the M memory-slot
\* ids, separator, content, separator, then only the configured pad token;
\* the attention mask is 1 up to the closing separator and 0 after it, the
\* type mask is all zeros.
C9_SegmentLayout ==
  pc = "loop" =>
    \A c \in 1..NSeg : \A b \in Batch :
      LET seg == segmented[1][c][b]
          M == num_mem_tokens
      IN  /\ Len(seg) = input_size
          /\ seg[1] = cls_token_id
          /\ \A j \in 1..M : seg[1 + j] = vocab_size + j - 1
          /\ seg[M + 2] = sep_token_id
          /\ ClosingSep(seg) >= M + 3
          /\ \A p \in (ClosingSep(seg) + 1)..input_size : seg[p] = pad_token_id
          /\ Len(segmented[2][c][b]) = input_size
          /\ \A p \in 1..input_size :
               segmented[2][c][b][p] = (IF p <= ClosingSep(seg) THEN 1 ELSE 0)
          /\ segmented[3][c][b] = [p \in 1..input_size |-> 0]

SegNext == Call

SegSpec == SegInit /\ [][SegNext]_vars
====
